---- MODULE Spec2Model ----
(***************************************************************************)
(* Model of the PythonTool auto-push schedulers and synchronisation run.   *)
(*                                                                         *)
(*   June/DailyRandomScheduler.py    DailyRandomScheduler (every day)      *)
(*   June/WeekendAutoPushScheduler.py DailyRandomScheduler (weekend only)  *)
(*   June/AutoPushGitHub.py          GitAutoPusher, auto_push              *)
(*   (the May/ files hold the same scheduler code)                         *)
(*                                                                         *)
(* Time is scaled.  The generator computes in seconds, the `schedule`      *)
(* library arms jobs at HH:MM.  The model keeps both units but makes a     *)
(* minute SecondsPerMinute seconds long, an hour MinutesPerHour minutes    *)
(* long and a day MaxHour+1 hours long, so that every draw of              *)
(* random.randint can be enumerated.                                       *)
(***************************************************************************)
EXTENDS Integers, Sequences, FiniteSets

(* ----------------------------- scale ----------------------------------- *)
\* seconds in a minute of the model's clock (60 on a real clock)
SecondsPerMinute == 2
\* minutes in an hour of the model's clock (60 on a real clock)
MinutesPerHour == 4
\* _min_interval, in minutes of the model's clock (10 minutes in the source,
\* a sixth of an hour)
MinIntervalMinutes == 1
\* start_hour and end_hour range over 0..MaxHour; the day has MaxHour+1 hours
MaxHour == 2
\* the clock runs from day 0 to the end of day MaxDays
MaxDays == 2
\* May/AutoPushGitHub.py: the hour at which the day's window opens (hour=9 in
\* the source); the window closes at the day's last whole hour (hour=21)
MayStartHour == 1
\* the seconds one call of May's auto_push() can take, at most
MaxPushSeconds == 2

(* --------------------------- constants --------------------------------- *)
\* _job_count_range = (1, 3)
MinCount == 1
MaxCount == 3
\* linux_env/autoPush.py: the hours between which the push time is drawn
START_HOUR == 9
END_HOUR == 21
\* weekday() of Saturday; _is_weekend tests weekday() in (5, 6)
Saturday == 5
Sunday == 6
DaysPerWeek == 7
\* May/AutoPushGitHub.py generate_random_times: count = random.randint(1, 3)
MayMinCount == 1
MayMaxCount == 3

HoursPerDay == MaxHour + 1
SecondsPerHour == MinutesPerHour * SecondsPerMinute
MinutesPerDay == HoursPerDay * MinutesPerHour
SecondsPerDay == HoursPerDay * SecondsPerHour

VARIABLES
    start_hour,      \* __init__ parameter; _start_time = timedelta(hours=start_hour)
    end_hour,        \* __init__ parameter; _end_time = timedelta(hours=end_hour)
    called,          \* _generate_time_slots has returned at least once
    task_count,      \* the count drawn by the last _generate_time_slots call
    time_slots,      \* the sequence returned by the last call (seconds of the day)
    slot_draws,      \* random.randint calls the last call made to draw slots
    loop_gaps        \* max_next - min_next, in seconds, at each iteration of the
                     \* last call's loop

genVars == <<start_hour, end_hour, called, task_count, time_slots, slot_draws,
             loop_gaps>>

VARIABLES
    weekend_only,    \* TRUE: WeekendAutoPushScheduler.py; FALSE: DailyRandomScheduler.py
    weekday0,        \* datetime.weekday() of day 0, the day the process starts
    now,             \* the clock: [day, minute], minute of the day as HH:MM
    jobs,            \* schedule's job list (schedule.jobs), in insertion order
    scheduled_jobs,  \* self._scheduled_jobs: ids of the slot jobs of this object
    initial_job,     \* self._initial_job: the id of the bootstrap job, or NoJob
    queue,           \* run_pending: the sorted runnable jobs not yet run
    gen_count,       \* calls of _schedule_daily_jobs so far
    last_call,       \* the last _schedule_daily_jobs call: its day, the day of the
                     \* call before it, whether the day was eligible
    last_run,        \* the last job callback that ran
    initial_runs,    \* the times _execute_initial_task has run
    in_flight,       \* the auto_push calls that have been entered and not left
    interrupted      \* None while the process runs; after KeyboardInterrupt, what
                     \* the interrupt found the process doing

schedVars == <<weekend_only, weekday0, now, jobs, scheduled_jobs, initial_job,
               queue, gen_count, last_call, last_run, initial_runs, in_flight,
               interrupted>>

VARIABLES
    repo_path,       \* what _validate_path finds at repo_path
    has_changes,     \* the working copy has something to commit when commit runs
    sync_pc,         \* the step of auto_push that is next
    marker_file,     \* _create_timestamp_file has created its file in this run
    commands,        \* the commands run so far in this run, with their results
    flow_result,     \* what auto_push logs: the tuple execute_push_flow returned
    wait_sec,        \* linux_env/autoPush.py: the seconds main sleeps before the push
    notice           \* linux_env/autoPush.py: the notification main handed to
                     \* send_dingtalk

syncVars == <<repo_path, has_changes, sync_pc, marker_file, commands, flow_result,
              wait_sec, notice>>

VARIABLES
    may_pc,          \* May/AutoPushGitHub.py: the statement of run_daily that is next
    clock,           \* datetime.now() in run_daily: the day, the second of the day,
                     \* and whether the instant is later than that whole second
    times,           \* the target times run_daily has yet to hand to run_once
    last_push,       \* the instant of the latest call of May's auto_push()
    planned_days     \* the days for which generate_random_times has returned times

mayVars == <<may_pc, clock, times, last_push, planned_days>>

vars == <<genVars, schedVars, syncVars, mayVars>>

(* ------------------- _generate_time_slots ------------------------------ *)
\* timedelta(hours=h), in seconds
HoursDelta(h) == h * SecondsPerHour

\* self._min_interval, in seconds
MinInterval == MinIntervalMinutes * SecondsPerMinute

\* the values random.randint(a, b) can return
RandInt(a, b) == a .. b

\* total_seconds = (self._end_time - self._start_time).total_seconds()
TotalSeconds(start_time, end_time) == end_time - start_time

MinRequiredOffByOne(n) == (n - 2) * MinInterval
MinRequiredOneTooMany(n) == n * MinInterval
\* min_required = (task_count - 1) * self._min_interval.total_seconds()
MinRequired(n) == (n - 1) * MinInterval

MinNextNoSpacing(last) == last
MinNextShort(last) == last + MinInterval - 1
\* min_next = last_time + self._min_interval
MinNext(last) == last + MinInterval

MaxNextPastEnd(end_time, n, len) == end_time + MinInterval
\* max_next = self._end_time - (task_count - len(time_slots) - 1) * self._min_interval
MaxNext(end_time, n, len) == end_time - (n - len - 1) * MinInterval

\* the loop `for _ in range(task_count - 1)`, with k iterations left: the set of
\* lists time_slots can hold when the loop ends, each with the differences
\* max_next - min_next the iterations computed
RECURSIVE SlotLoop(_, _, _, _, _)
SlotLoop(slots, gaps, end_time, n, k) ==
    IF k = 0 THEN {[slots |-> slots, gaps |-> gaps]}
    ELSE LET last_time == slots[Len(slots)]
             min_next == MinNext(last_time)
             max_next == MaxNext(end_time, n, Len(slots))
             seen == Append(gaps, max_next - min_next)
         IN  IF min_next >= max_next
             THEN {[slots |-> slots, gaps |-> seen]}         \* break
             ELSE UNION { SlotLoop(Append(slots, next_seconds), seen, end_time, n,
                                   k - 1) :
                            next_seconds \in RandInt(min_next, max_next) }

\* (datetime.combine(current_date, datetime.min.time()) + t).time(): the time of
\* day of midnight + t, the days of t dropped
ToTime(t) == t % SecondsPerDay

\* what _generate_time_slots can return on the window [start_time, end_time] for
\* the drawn task_count n: the list, and the number of slots it drew
GenerateTimeSlots(start_time, end_time, n) ==
    IF TotalSeconds(start_time, end_time) < MinRequired(n)
    THEN {[slots |-> <<>>, draws |-> 0, gaps |-> <<>>]}       \* warning, return []
    ELSE { [slots |-> [i \in DOMAIN s.slots |-> ToTime(s.slots[i])],
            draws |-> Len(s.slots), gaps |-> s.gaps] :
             s \in UNION { SlotLoop(<<start_time + start_point>>, <<>>, end_time, n,
                                    n - 1) :
                     start_point \in RandInt(0, TotalSeconds(start_time, end_time)
                                                  - MinRequired(n)) } }

\* task_count = random.randint(*self._job_count_range)
TaskCounts == RandInt(MinCount, MaxCount)

\* self._start_time and self._end_time, in seconds
StartTime == HoursDelta(start_hour)
EndTime == HoursDelta(end_hour)

(* ---------------------- the schedule library --------------------------- *)
None == "None"
\* a reference to no Job (Python's None where a Job is expected)
NoJob == <<>>

\* a job of schedule.every().day.at("HH:MM").do(f):
\*   id       <<generation, kind, index>>, the identity of the Job object: the
\*            _schedule_daily_jobs call that made it (0: the constructor's
\*            _schedule_initial_task) and its place among that call's jobs
\*   kind     the callback: "slot" _execute_work, "rollover" _schedule_daily_jobs,
\*            "initial" _execute_initial_task
\*   at       the minute of the day it is armed for
\*   next_run the day of its next run (Job.next_run is that day at `at`)
\*   made     the day on which every().day.at().do() made the job
HHMMHourOnly(t) == (t \div SecondsPerHour) * MinutesPerHour
\* t.strftime('%H:%M'): the time of day cut to whole minutes
HHMM(t) == t \div SecondsPerMinute

NextRunDaySameDay(at, t) == t.day
\* Job._schedule_next_run of a job that never ran: today when at_time is later
\* than now.time(), else tomorrow
NextRunDay(at, t) == IF at > t.minute THEN t.day ELSE t.day + 1

\* every().day.at(at).do(callback), called at time t
NewJob(id, kind, at, t) ==
    [id |-> id, kind |-> kind, at |-> at, next_run |-> NextRunDay(at, t),
     made |-> t.day]

\* Job.should_run: datetime.now() >= self.next_run
ShouldRun(j, t) ==
    \/ j.next_run < t.day
    \/ j.next_run = t.day /\ j.at <= t.minute

\* Job.__lt__: self.next_run < other.next_run
JobLess(a, b) ==
    \/ a.next_run < b.next_run
    \/ a.next_run = b.next_run /\ a.at < b.at

\* sorted(): stable, so a job goes after the jobs that are not later than it
RECURSIVE Sorted(_)
Sorted(js) ==
    IF js = <<>> THEN <<>>
    ELSE LET rest == Sorted(Tail(js))
             j == Head(js)
             before == SelectSeq(rest, LAMBDA x : JobLess(x, j))
             after == SelectSeq(rest, LAMBDA x : ~JobLess(x, j))
         IN  before \o <<j>> \o after

Range(f) == { f[i] : i \in DOMAIN f }

CancelJobKeepsAll(js, id) == js

RescheduleDropsJob(js, id, t) == SelectSeq(js, LAMBDA j : j.id # id)
\* schedule.cancel_job(job): the job is removed from the list; one that is not in
\* the list is left alone
CancelJob(js, id) == SelectSeq(js, LAMBDA j : j.id # id)

RECURSIVE CancelJobs(_, _)
\* for job in self._scheduled_jobs: schedule.cancel_job(job)
CancelJobs(js, ids) ==
    IF ids = <<>> THEN js
    ELSE CancelJobs(CancelJob(js, Head(ids)), Tail(ids))

\* Job.run after the callback: the next run is a day later, at the same time
Reschedule(js, id, t) ==
    [i \in DOMAIN js |->
        IF js[i].id = id THEN [js[i] EXCEPT !.next_run = t.day + 1] ELSE js[i]]

(* --------------------- AutoPushGitHub.auto_push ------------------------ *)
\* the most files `git ls-files --deleted` lists in one run
MaxDeleted == 2

\* what subprocess.run does with a git command: exit 0 with text on stdout,
\* exit 0 with empty stdout, a non-zero exit (CalledProcessError), or no exit
\* within the timeout (TimeoutExpired)
Results == {"out", "empty", "fail", "timeout"}

\* `git status -sb`: "no_upstream" is exit 0 with "[no upstream branch]" on stdout
StatusResults == Results \cup {"no_upstream"}

\* `ssh -T git@github.com`: "hi" is output that holds "Hi", "no_hi" any other
\* output, "exception" a timeout or another exception of subprocess.run
SshResults == {"hi", "no_hi", "exception"}

\* open(filename, 'w'): the file is created, or the call raises
FileResults == {"created", "raised"}

\* what os.path.exists finds: the path and its .git, no .git, or no path
RepoPaths == {"ok", "not_repo", "missing"}

\* `git commit` exits 0 only when the index holds a change
CommitResults == IF has_changes THEN Results ELSE {"fail", "timeout"}

Cmd(c, r) == [cmd |-> c, res |-> r]

NoResult == [success |-> FALSE, message |-> None]

\* _validate_path: TRUE when it returns, FALSE when it raises ValueError
ValidatePath(p) == p = "ok"

\* _run_git_command returns `result.stdout or None`, None from every except
\* clause: the value is truthy only on exit 0 with text on stdout
RunGitCommand(r) == r = "out"

CheckSshConnectionAlways(r) == TRUE

\* check_ssh_connection: "Hi" in result.stdout; False on any exception
CheckSshConnection(r) == r = "hi"

FileCreatedIgnored(r) == TRUE

\* the try around _create_timestamp_file: TRUE when no exception was raised
FileCreated(r) == r = "created"

GetCurrentBranchAlways(r) == TRUE

\* _get_current_branch: branch.strip() if branch else None, as a truth value
GetCurrentBranch(r) == RunGitCommand(r)

\* _needs_upstream: bool(status and "[no upstream branch]" in status)
NeedsUpstream(st) == st = "no_upstream"

\* _handle_deleted_files: ls-files, then one `git rm --cached` per listed file
HandleDeletedFiles(r, rms) ==
    IF RunGitCommand(r)
    THEN <<Cmd("ls_files", r)>> \o [i \in DOMAIN rms |-> Cmd("rm_cached", rms[i])]
    ELSE <<Cmd("ls_files", r)>>

\* the results of the `git rm --cached` commands of one run
RmResults == UNION { [1 .. k -> Results] : k \in 1 .. MaxDeleted }

AttemptPushFallsThrough(p1, st, pu, pl, p2) ==
    IF p1 = "out"
    THEN <<Cmd("push", p1)>>
    ELSE IF st = "no_upstream"
         THEN <<Cmd("push", p1), Cmd("status", st), Cmd("push_u", pu),
                Cmd("pull", pl), Cmd("push", p2)>>
         ELSE <<Cmd("push", p1), Cmd("status", st), Cmd("pull", pl),
                Cmd("push", p2)>>

AttemptPushRetriesTwice(p1, st, pu, pl, p2) ==
    IF p1 = "out"
    THEN <<Cmd("push", p1)>>
    ELSE IF st = "no_upstream"
         THEN <<Cmd("push", p1), Cmd("status", st), Cmd("push_u", pu)>>
         ELSE <<Cmd("push", p1), Cmd("status", st), Cmd("pull", pl),
                Cmd("push", p2), Cmd("pull", pl), Cmd("push", p2)>>

\* _attempt_push: the commands it runs when push, status, push -u, pull and the
\* second push have the results p1, st, pu, pl, p2
AttemptPush(p1, st, pu, pl, p2) ==
    IF RunGitCommand(p1)
    THEN <<Cmd("push", p1)>>
    ELSE IF NeedsUpstream(st)
         THEN <<Cmd("push", p1), Cmd("status", st), Cmd("push_u", pu)>>
         ELSE <<Cmd("push", p1), Cmd("status", st), Cmd("pull", pl),
                Cmd("push", p2)>>

\* execute_push_flow returns (success, message), or GitAutoPusher() raised
\* ValueError; auto_push logs it and returns.  The messages are, in the source's
\* order: "SSH连接失败", "文件创建失败", "代码拉取失败", "提交失败",
\* "分支获取失败", "推送结束"
Return(success, message) ==
    /\ flow_result' = [success |-> success, message |-> message]
    /\ sync_pc' = "done"

Goto(step) ==
    /\ sync_pc' = step
    /\ UNCHANGED flow_result

\* one git command of execute_push_flow whose failure ends the run
Step(c, r, next, message) ==
    /\ commands' = Append(commands, Cmd(c, r))
    /\ IF RunGitCommand(r) THEN Goto(next) ELSE Return(FALSE, message)

\* auto_push: GitAutoPusher(repo_path), whose __init__ calls _validate_path
FlowValidate ==
    /\ sync_pc = "validate"
    /\ IF ValidatePath(repo_path) THEN Goto("ssh") ELSE Return(FALSE, "ValueError")
    /\ UNCHANGED <<wait_sec, notice, repo_path, has_changes, marker_file, commands>>
    /\ UNCHANGED <<genVars, schedVars, mayVars>>

\* execute_push_flow: if not self.check_ssh_connection(): return
FlowSsh ==
    /\ sync_pc = "ssh"
    /\ \E r \in SshResults :
          /\ commands' = Append(commands, Cmd("ssh", r))
          /\ IF CheckSshConnection(r) THEN Goto("create_file")
                                      ELSE Return(FALSE, "SshFailed")
    /\ UNCHANGED <<wait_sec, notice, repo_path, has_changes, marker_file>>
    /\ UNCHANGED <<genVars, schedVars, mayVars>>

\* execute_push_flow: try: self._create_timestamp_file() except: return
FlowCreateFile ==
    /\ sync_pc = "create_file"
    /\ \E r \in FileResults :
          /\ marker_file' = r
          /\ IF FileCreated(r) THEN Goto("pull")
                               ELSE Return(FALSE, "FileCreateFailed")
    /\ UNCHANGED <<wait_sec, notice, repo_path, has_changes, commands>>
    /\ UNCHANGED <<genVars, schedVars, mayVars>>

\* execute_push_flow: git reset --hard HEAD && git stash clear && git pull --force
FlowPull ==
    /\ sync_pc = "pull"
    /\ \E r \in Results : Step("reset_pull", r, "deleted", "PullFailed")
    /\ UNCHANGED <<wait_sec, notice, repo_path, has_changes, marker_file>>
    /\ UNCHANGED <<genVars, schedVars, mayVars>>

\* execute_push_flow: self._handle_deleted_files()
FlowDeleted ==
    /\ sync_pc = "deleted"
    /\ \E r \in Results : \E rms \in RmResults :
          commands' = commands \o HandleDeletedFiles(r, rms)
    /\ Goto("add")
    /\ UNCHANGED <<wait_sec, notice, repo_path, has_changes, marker_file>>
    /\ UNCHANGED <<genVars, schedVars, mayVars>>

\* execute_push_flow: self._run_git_command("git add .")
FlowAdd ==
    /\ sync_pc = "add"
    /\ \E r \in Results : commands' = Append(commands, Cmd("add", r))
    /\ Goto("commit")
    /\ UNCHANGED <<wait_sec, notice, repo_path, has_changes, marker_file>>
    /\ UNCHANGED <<genVars, schedVars, mayVars>>

\* execute_push_flow: if not self._run_git_command('git commit ...'): return
FlowCommit ==
    /\ sync_pc = "commit"
    /\ \E r \in CommitResults : Step("commit", r, "branch", "CommitFailed")
    /\ UNCHANGED <<wait_sec, notice, repo_path, has_changes, marker_file>>
    /\ UNCHANGED <<genVars, schedVars, mayVars>>

\* execute_push_flow: branch = self._get_current_branch(); if not branch: return
FlowBranch ==
    /\ sync_pc = "branch"
    /\ \E r \in Results :
          /\ commands' = Append(commands, Cmd("rev_parse", r))
          /\ IF GetCurrentBranch(r) THEN Goto("push")
                                    ELSE Return(FALSE, "BranchFailed")
    /\ UNCHANGED <<wait_sec, notice, repo_path, has_changes, marker_file>>
    /\ UNCHANGED <<genVars, schedVars, mayVars>>

\* execute_push_flow: self._attempt_push(branch); return True, "推送结束"
FlowPush ==
    /\ sync_pc = "push"
    /\ \E p1 \in Results, st \in StatusResults, pu \in Results,
          pl \in Results, p2 \in Results :
          commands' = commands \o AttemptPush(p1, st, pu, pl, p2)
    /\ Return(TRUE, "PushEnded")
    /\ UNCHANGED <<wait_sec, notice, repo_path, has_changes, marker_file>>
    /\ UNCHANGED <<genVars, schedVars, mayVars>>

\* no auto_push run is modelled command by command
SyncIdle ==
    /\ repo_path = "ok"
    /\ has_changes = TRUE
    /\ sync_pc = "done"
    /\ marker_file = None
    /\ commands = <<>>
    /\ flow_result = NoResult
    /\ wait_sec = 0
    /\ notice = None

\* May/AutoPushGitHub.py: auto_push() has not been called
NoPush == [day |-> -1, sec |-> 0]

\* May/AutoPushGitHub.py is not running
MayIdle ==
    /\ may_pc = "idle"
    /\ clock = [day |-> 0, sec |-> 0, late |-> FALSE]
    /\ times = <<>>
    /\ last_push = NoPush
    /\ planned_days = {}

(* ----------------------- linux_env/autoPush.py ------------------------- *)
\* get_random_today_time: start + timedelta(seconds=random.randint(0, delta)),
\* in seconds of the day
RandomTodayTimes ==
    { HoursDelta(START_HOUR) + random_sec :
        random_sec \in RandInt(0, HoursDelta(END_HOUR) - HoursDelta(START_HOUR)) }

\* datetime.now() when main runs: before, inside and after the window
MainNows == { HoursDelta(h) : h \in {START_HOUR - 1, START_HOUR + 1, END_HOUR + 1} }

\* wait_sec = max(0.0, (run_time - now).total_seconds())
WaitSec(run_time, t) == IF run_time - t > 0 THEN run_time - t ELSE 0

\* _run_git returns the CompletedProcess of a command that exited 0, and None
\* from its except clause (non-zero exit, timeout, any other exception)
RunGit(r) == r \in {"out", "empty"}

\* main: the random time is drawn and main sleeps until it
MainWait ==
    /\ sync_pc = "main"
    /\ \E run_time \in RandomTodayTimes, t \in MainNows :
          wait_sec' = WaitSec(run_time, t)
    /\ sync_pc' = "ts_file"
    /\ UNCHANGED <<notice, repo_path, has_changes, marker_file, commands,
                   flow_result>>
    /\ UNCHANGED <<genVars, schedVars, mayVars>>

\* push: self._create_ts_file(); what it raises is caught by push's except clause
PushCreateFile ==
    /\ sync_pc = "ts_file"
    /\ \E r \in FileResults :
          /\ marker_file' = r
          /\ IF r = "created" THEN Goto("git_add")
                              ELSE /\ flow_result' = [success |-> FALSE,
                                                     message |-> "PushFailed"]
                                   /\ sync_pc' = "notify"
    /\ UNCHANGED <<wait_sec, notice, repo_path, has_changes, commands>>
    /\ UNCHANGED <<genVars, schedVars, mayVars>>

\* push: self._run_git("git add ."), the result dropped
PushAdd ==
    /\ sync_pc = "git_add"
    /\ \E r \in Results : commands' = Append(commands, Cmd("add", r))
    /\ Goto("git_commit")
    /\ UNCHANGED <<wait_sec, notice, repo_path, has_changes, marker_file>>
    /\ UNCHANGED <<genVars, schedVars, mayVars>>

\* push: self._run_git('git commit ...'), the result dropped
PushCommit ==
    /\ sync_pc = "git_commit"
    /\ \E r \in CommitResults : commands' = Append(commands, Cmd("commit", r))
    /\ Goto("git_push")
    /\ UNCHANGED <<wait_sec, notice, repo_path, has_changes, marker_file>>
    /\ UNCHANGED <<genVars, schedVars, mayVars>>

\* push: self._run_git("git push origin main"); return True, "推送成功 ✅"
PushPush ==
    /\ sync_pc = "git_push"
    /\ \E r \in Results : commands' = Append(commands, Cmd("push", r))
    /\ flow_result' = [success |-> TRUE, message |-> "PushSucceeded"]
    /\ sync_pc' = "notify"
    /\ UNCHANGED <<wait_sec, notice, repo_path, has_changes, marker_file>>
    /\ UNCHANGED <<genVars, schedVars, mayVars>>

\* main: the title is chosen by ok and send_dingtalk is called
MainNotify ==
    /\ sync_pc = "notify"
    /\ notice' = IF flow_result.success THEN "success" ELSE "failure"
    /\ sync_pc' = "done"
    /\ UNCHANGED <<wait_sec, repo_path, has_changes, marker_file, commands,
                   flow_result>>
    /\ UNCHANGED <<genVars, schedVars, mayVars>>

(* ------------------------- the scheduler ------------------------------- *)
\* datetime.now().weekday() on day d
Weekday(d) == (weekday0 + d) % DaysPerWeek

\* _is_weekend: dt.weekday() in (5, 6)
IsWeekend(d) == Weekday(d) \in {Saturday, Sunday}

\* the test at the head of _schedule_daily_jobs: the weekend script returns early
\* on a day that is not of the weekend, the daily script has no such test
Eligible(d) == ~weekend_only \/ IsWeekend(d)

\* [t.strftime('%H:%M') for t in time_slots]
SlotMinutes(slots) == [i \in DOMAIN slots |-> HHMM(slots[i])]

\* the lists of HH:MM that _schedule_daily_jobs can get from _generate_time_slots
\* on the window of start hour s and end hour e
PlannedMinutes ==
    [s \in 0 .. MaxHour, e \in 0 .. MaxHour |->
        { SlotMinutes(r.slots) :
            r \in UNION { GenerateTimeSlots(HoursDelta(s), HoursDelta(e), n) :
                            n \in TaskCounts } }]

\* the jobs armed for the slots: one per slot, at its HH:MM
SlotJobs(minutes, g, t) ==
    [i \in DOMAIN minutes |-> NewJob(<<g, "slot", i>>, "slot", minutes[i], t)]

\* schedule.every().day.at("00:00").do(self._schedule_daily_jobs)
RolloverJob(g, t) == NewJob(<<g, "rollover", 0>>, "rollover", 0, t)

\* _schedule_daily_jobs, call number g at time t, when _generate_time_slots
\* returns slots of the given HH:MM: the job list and _scheduled_jobs it leaves
ScheduleDailyJobs(js, sched, minutes, g, t) ==
    LET kept == CancelJobs(js, sched)
    IN  IF minutes = <<>>
        THEN [jobs |-> kept, scheduled |-> <<>>]
        ELSE [jobs |-> kept \o SlotJobs(minutes, g, t) \o <<RolloverJob(g, t)>>,
              scheduled |-> [i \in DOMAIN minutes |-> <<g, "slot", i>>]]

\* _schedule_daily_jobs on a day the weekend script skips: the old slot jobs are
\* cancelled and the method returns
SkipDay(js, sched) == [jobs |-> CancelJobs(js, sched), scheduled |-> <<>>]

\* every result _schedule_daily_jobs can have at time t, as call number g
DailyJobsResults(js, sched, g, t) ==
    IF Eligible(t.day)
    THEN { ScheduleDailyJobs(js, sched, m, g, t) :
             m \in PlannedMinutes[start_hour, end_hour] }
    ELSE { SkipDay(js, sched) }

\* _schedule_initial_task at time t: initial_time = now + 1 minute, as HH:MM
InitialJob(t) ==
    NewJob(<<0, "initial", 0>>, "initial", (t.minute + 1) % MinutesPerDay, t)

NoRun ==
    [kind |-> None, id |-> NoJob, day |-> 0, armed |-> FALSE, raised |-> FALSE,
     made |-> 0, calls |-> 0]

IsArmed(id) == \E i \in DOMAIN jobs : jobs[i].id = id

\* datetime.now() at construction: the process is started in the first or in the
\* last minute of an hour
StartMinutes ==
    { h * MinutesPerHour + m : h \in 0 .. MaxHour, m \in {0, MinutesPerHour - 1} }

\* DailyRandomScheduler(): __init__ calls _schedule_daily_jobs, then
\* _schedule_initial_task
Construct(weekend) ==
    /\ weekend_only = weekend
    /\ weekday0 \in (IF weekend THEN 0 .. DaysPerWeek - 1 ELSE {0})
    /\ start_hour \in 0 .. MaxHour
    /\ end_hour \in 0 .. MaxHour
    /\ now \in [day : {0}, minute : StartMinutes]
    /\ \E r \in DailyJobsResults(<<>>, <<>>, 1, now) :
          /\ jobs = Append(r.jobs, InitialJob(now))
          /\ scheduled_jobs = r.scheduled
    /\ initial_job = <<0, "initial", 0>>
    /\ queue = <<>>
    /\ gen_count = 1
    /\ last_call = [day |-> 0, prev_day |-> -1, eligible |-> Eligible(0)]
    /\ last_run = NoRun
    /\ initial_runs = 0
    /\ in_flight = 0
    /\ interrupted = None
    /\ MayIdle
    /\ called = FALSE
    /\ task_count = 0
    /\ time_slots = <<>>
    /\ slot_draws = 0
    /\ loop_gaps = <<>>
    /\ SyncIdle

Due == SelectSeq(jobs, LAMBDA j : ShouldRun(j, now))

\* the next instant at which a job is due, or the next midnight when that is earlier
NextInstant ==
    LET midnight == [day |-> now.day + 1, minute |-> 0]
        today == { jobs[i].at : i \in { k \in DOMAIN jobs : jobs[k].next_run = now.day } }
    IN  IF today = {} THEN midnight
        ELSE [day |-> now.day,
              minute |-> CHOOSE m \in today : \A x \in today : m <= x]

\* run(): time.sleep(1) while no job is due; the clock reaches the next instant
Sleep ==
    /\ interrupted = None
    /\ queue = <<>>
    /\ Due = <<>>
    /\ NextInstant.day <= MaxDays
    /\ now' = NextInstant
    /\ UNCHANGED <<weekend_only, weekday0, jobs, scheduled_jobs, initial_job,
                   queue, gen_count, last_call, last_run, initial_runs,
                   in_flight, interrupted>>
    /\ UNCHANGED <<genVars, syncVars, mayVars>>

\* schedule.run_pending(): the runnable jobs are collected and sorted, then run
\* one after the other
RunPending ==
    /\ interrupted = None
    /\ queue = <<>>
    /\ Due # <<>>
    /\ queue' = Sorted(Due)
    /\ UNCHANGED <<weekend_only, weekday0, now, jobs, scheduled_jobs, initial_job,
                   gen_count, last_call, last_run, initial_runs, in_flight,
                   interrupted>>
    /\ UNCHANGED <<genVars, syncVars, mayVars>>

AutoPushCallsWithRetry(raised) == IF raised THEN 2 ELSE 1

\* the auto_push calls one run of _execute_work or _execute_initial_task makes:
\* one call in the try block, none in the except clause
AutoPushCalls(raised) == 1

\* the callback of job j has returned
\* raised: auto_push raised and the callback's except clause logged it
Ran(j, raised) ==
    [kind |-> j.kind, id |-> j.id, day |-> now.day, armed |-> IsArmed(j.id),
     raised |-> raised, made |-> j.made,
     calls |-> IF j.kind = "rollover" THEN 0 ELSE AutoPushCalls(raised)]

NoCallbackRunningUnchecked(n) == TRUE

\* run_pending calls job.run() and goes on to the next job when it has returned
NoCallbackRunning(n) == n = 0

\* run_pending reaches a slot job or the bootstrap job: the callback is entered
\* and calls auto_push
EnterCallback ==
    /\ interrupted = None
    /\ queue # <<>>
    /\ Head(queue).kind \in {"slot", "initial"}
    /\ NoCallbackRunning(in_flight)
    /\ in_flight' = in_flight + 1
    /\ UNCHANGED <<weekend_only, weekday0, now, jobs, scheduled_jobs, initial_job,
                   queue, gen_count, last_call, last_run, initial_runs,
                   interrupted>>
    /\ UNCHANGED <<genVars, syncVars, mayVars>>

\* a slot job's callback returns: _execute_work has called auto_push and
\* swallowed what it raised; Job.run then sets the job's next run
ExecuteWork ==
    /\ interrupted = None
    /\ queue # <<>>
    /\ Head(queue).kind = "slot"
    /\ in_flight > 0
    /\ in_flight' = in_flight - 1
    /\ jobs' = Reschedule(jobs, Head(queue).id, now)
    /\ queue' = Tail(queue)
    /\ \E raised \in BOOLEAN : last_run' = Ran(Head(queue), raised)
    /\ UNCHANGED <<weekend_only, weekday0, now, scheduled_jobs, initial_job,
                   gen_count, last_call, initial_runs, interrupted>>
    /\ UNCHANGED <<genVars, syncVars, mayVars>>

\* the bootstrap job's callback returns: _execute_initial_task has called
\* auto_push and, in its finally block, cancels the job and clears _initial_job;
\* Job.run then sets the next run of the job object
ExecuteInitialTask ==
    /\ interrupted = None
    /\ queue # <<>>
    /\ Head(queue).kind = "initial"
    /\ in_flight > 0
    /\ in_flight' = in_flight - 1
    /\ jobs' = Reschedule(IF initial_job # NoJob
                          THEN CancelJob(jobs, initial_job) ELSE jobs,
                          Head(queue).id, now)
    /\ initial_job' = NoJob
    /\ initial_runs' = initial_runs + 1
    /\ queue' = Tail(queue)
    /\ \E raised \in BOOLEAN : last_run' = Ran(Head(queue), raised)
    /\ UNCHANGED <<weekend_only, weekday0, now, scheduled_jobs, gen_count, last_call,
                   interrupted>>
    /\ UNCHANGED <<genVars, syncVars, mayVars>>

\* a rollover job runs: _schedule_daily_jobs, then Job.run sets the job's next run
RunRollover ==
    /\ interrupted = None
    /\ queue # <<>>
    /\ Head(queue).kind = "rollover"
    /\ NoCallbackRunning(in_flight)
    /\ \E r \in DailyJobsResults(jobs, scheduled_jobs, gen_count + 1, now) :
          /\ jobs' = Reschedule(r.jobs, Head(queue).id, now)
          /\ scheduled_jobs' = r.scheduled
    /\ gen_count' = gen_count + 1
    /\ last_call' = [day |-> now.day, prev_day |-> last_call.day,
                     eligible |-> Eligible(now.day)]
    /\ queue' = Tail(queue)
    /\ last_run' = Ran(Head(queue), FALSE)
    /\ UNCHANGED <<weekend_only, weekday0, now, initial_job, initial_runs,
                   in_flight, interrupted>>
    /\ UNCHANGED <<genVars, syncVars, mayVars>>

\* KeyboardInterrupt reaches the main thread: no except clause of the callbacks
\* or of auto_push catches it (they catch Exception), the finally block of
\* _execute_initial_task runs, run() logs and calls sys.exit(0).  Inside a
\* callback the interrupt arrives between two commands or while subprocess.run
\* waits for one, which then kills the command and re-raises
Interrupt ==
    /\ interrupted = None
    /\ IF in_flight > 0
       THEN /\ interrupted' \in {"between_commands", "mid_command"}
            /\ IF Head(queue).kind = "initial" /\ initial_job # NoJob
               THEN jobs' = CancelJob(jobs, initial_job)
               ELSE jobs' = jobs
            /\ initial_job' = IF Head(queue).kind = "initial" THEN NoJob
                              ELSE initial_job
       ELSE /\ interrupted' = "waiting"
            /\ UNCHANGED <<jobs, initial_job>>
    /\ in_flight' = 0
    /\ UNCHANGED <<weekend_only, weekday0, now, scheduled_jobs, queue, gen_count,
                   last_call, last_run, initial_runs>>
    /\ UNCHANGED <<genVars, syncVars, mayVars>>

\* one call of _generate_time_slots on the configured window
Generate ==
    /\ ~called
    /\ \E n \in TaskCounts :
         \E r \in GenerateTimeSlots(StartTime, EndTime, n) :
            /\ task_count' = n
            /\ time_slots' = r.slots
            /\ slot_draws' = r.draws
            /\ loop_gaps' = r.gaps
    /\ called' = TRUE
    /\ UNCHANGED <<start_hour, end_hour>>
    /\ UNCHANGED <<schedVars, syncVars, mayVars>>

GenInit ==
    /\ start_hour \in 0 .. MaxHour
    /\ end_hour \in 0 .. MaxHour
    /\ called = FALSE
    /\ task_count = 0
    /\ time_slots = <<>>
    /\ slot_draws = 0
    /\ loop_gaps = <<>>
    /\ weekend_only = FALSE
    /\ weekday0 = 0
    /\ now = [day |-> 0, minute |-> 0]
    /\ jobs = <<>>
    /\ scheduled_jobs = <<>>
    /\ initial_job = NoJob
    /\ queue = <<>>
    /\ gen_count = 0
    /\ last_call = [day |-> 0, prev_day |-> -1, eligible |-> TRUE]
    /\ last_run = NoRun
    /\ initial_runs = 0
    /\ in_flight = 0
    /\ interrupted = None
    /\ MayIdle
    /\ SyncIdle

GenNext == Generate

\* the slot generator alone, on every window of whole hours
SpecGen == GenInit /\ [][GenNext]_vars

Init == Construct(FALSE)

WeekendInit == Construct(TRUE)

Next ==
    \/ Sleep
    \/ RunPending
    \/ EnterCallback
    \/ ExecuteWork
    \/ ExecuteInitialTask
    \/ RunRollover
    \/ Interrupt

\* DailyRandomScheduler.py: the scheduler that runs every day
Spec == Init /\ [][Next]_vars

\* WeekendAutoPushScheduler.py: the scheduler that runs on Saturday and Sunday
SpecWeekend == WeekendInit /\ [][Next]_vars

\* one call of auto_push(repo_path), on every repository state and every result
\* of every command it runs
SyncInit ==
    /\ repo_path \in RepoPaths
    /\ has_changes \in BOOLEAN
    /\ sync_pc = "validate"
    /\ marker_file = None
    /\ commands = <<>>
    /\ flow_result = NoResult
    /\ wait_sec = 0
    /\ notice = None
    /\ start_hour = 0
    /\ end_hour = 0
    /\ called = FALSE
    /\ task_count = 0
    /\ time_slots = <<>>
    /\ slot_draws = 0
    /\ loop_gaps = <<>>
    /\ weekend_only = FALSE
    /\ weekday0 = 0
    /\ now = [day |-> 0, minute |-> 0]
    /\ jobs = <<>>
    /\ scheduled_jobs = <<>>
    /\ initial_job = NoJob
    /\ queue = <<>>
    /\ gen_count = 0
    /\ last_call = [day |-> 0, prev_day |-> -1, eligible |-> TRUE]
    /\ last_run = NoRun
    /\ initial_runs = 0
    /\ in_flight = 0
    /\ interrupted = None
    /\ MayIdle

SyncNext ==
    \/ FlowValidate
    \/ FlowSsh
    \/ FlowCreateFile
    \/ FlowPull
    \/ FlowDeleted
    \/ FlowAdd
    \/ FlowCommit
    \/ FlowBranch
    \/ FlowPush

\* June/AutoPushGitHub.py: one synchronisation run
SpecSync == SyncInit /\ [][SyncNext]_vars

\* linux_env/autoPush.py: main is entered once
LinuxInit ==
    /\ repo_path = "ok"
    /\ has_changes \in BOOLEAN
    /\ sync_pc = "main"
    /\ marker_file = None
    /\ commands = <<>>
    /\ flow_result = NoResult
    /\ wait_sec = 0
    /\ notice = None
    /\ start_hour = 0
    /\ end_hour = 0
    /\ called = FALSE
    /\ task_count = 0
    /\ time_slots = <<>>
    /\ slot_draws = 0
    /\ loop_gaps = <<>>
    /\ weekend_only = FALSE
    /\ weekday0 = 0
    /\ now = [day |-> 0, minute |-> 0]
    /\ jobs = <<>>
    /\ scheduled_jobs = <<>>
    /\ initial_job = NoJob
    /\ queue = <<>>
    /\ gen_count = 0
    /\ last_call = [day |-> 0, prev_day |-> -1, eligible |-> TRUE]
    /\ last_run = NoRun
    /\ initial_runs = 0
    /\ in_flight = 0
    /\ interrupted = None
    /\ MayIdle

LinuxNext ==
    \/ MainWait
    \/ PushCreateFile
    \/ PushAdd
    \/ PushCommit
    \/ PushPush
    \/ MainNotify

\* linux_env/autoPush.py: one run of main
SpecLinux == LinuxInit /\ [][LinuxNext]_vars

(* ---------------------- May/AutoPushGitHub.py -------------------------- *)
\* the hour at which the window closes (hour=21 in the source)
MayEndHour == MaxHour

\* now.replace(hour=h, minute=0, second=0, microsecond=0) on day d
AtHour(d, h) == [day |-> d, sec |-> HoursDelta(h), late |-> FALSE]

\* a > b on two instants
Later(a, b) ==
    \/ a.day > b.day
    \/ a.day = b.day /\ a.sec > b.sec
    \/ a.day = b.day /\ a.sec = b.sec /\ a.late /\ ~b.late

\* t + timedelta(seconds=s)
PlusSeconds(t, s) ==
    [day |-> t.day + ((t.sec + s) \div SecondsPerDay),
     sec |-> (t.sec + s) % SecondsPerDay,
     late |-> t.late]

\* datetime.now() after time.sleep has slept up to t: sleep does not return
\* early, and the clock has moved on when now() is read
WakeAt(t) == [t EXCEPT !.late = TRUE]

\* is_weekend: datetime.now().weekday() >= 5
MayIsWeekend(c) == Weekday(c.day) >= Saturday

\* interval_min = 10 * 60, in seconds of the model's clock
IntervalMin == MinIntervalMinutes * SecondsPerMinute

\* delta_seconds = (end_time - start_time).total_seconds()
DeltaSeconds == HoursDelta(MayEndHour) - HoursDelta(MayStartHour)

\* times.sort() on a set of offsets
RECURSIVE SortedOffsets(_)
SortedOffsets(S) ==
    IF S = {} THEN <<>>
    ELSE LET least == CHOOSE a \in S : \A b \in S : a <= b
         IN <<least>> \o SortedOffsets(S \ {least})

\* the while loop of generate_random_times: it draws random_second in
\* randint(0, delta_seconds) and keeps a draw that is interval_min away from
\* every time kept so far, until count = randint(1, 3) are kept; then sorts
MayOffsets ==
    { SortedOffsets(S) :
        S \in { T \in SUBSET RandInt(0, DeltaSeconds) :
                  /\ Cardinality(T) \in RandInt(MayMinCount, MayMaxCount)
                  /\ \A a, b \in T : a < b => b - a >= IntervalMin } }

\* generate_random_times, called at instant c: the window is today's when
\* now > start_time is false, tomorrow's when it is true
GenerateRandomTimes(c) ==
    LET today == AtHour(c.day, MayStartHour)
        start_time == IF Later(c, today) THEN AtHour(c.day + 1, MayStartHour) ELSE today
    IN  { [i \in DOMAIN q |-> PlusSeconds(start_time, q[i])] : q \in MayOffsets }

\* run_daily, the head of the loop: is_weekend, then generate_random_times
MayLoop ==
    /\ may_pc = "loop"
    /\ IF MayIsWeekend(clock)
       THEN \E ts \in GenerateRandomTimes(clock) :
               /\ times' = ts
               /\ planned_days' = planned_days \cup {ts[1].day}
               /\ may_pc' = "run_once"
       ELSE /\ times' = <<>>
            /\ planned_days' = planned_days
            /\ may_pc' = "wait"
    /\ UNCHANGED <<clock, last_push>>
    /\ UNCHANGED <<genVars, schedVars, syncVars>>

\* run_daily, one turn of `for target_time in times: run_once(target_time)`:
\* run_once returns at once when the target has passed, and otherwise sleeps up
\* to it and calls auto_push(), which takes some seconds and can raise
MayRunOnce ==
    /\ may_pc = "run_once"
    /\ LET target_time == Head(times)
           after == IF Tail(times) = <<>> THEN "wait" ELSE "run_once"
       IN  IF ~Later(target_time, clock)
           THEN /\ times' = Tail(times)
                /\ may_pc' = after
                /\ UNCHANGED <<clock, last_push>>
           ELSE /\ target_time.day <= MaxDays
                /\ last_push' = [day |-> target_time.day, sec |-> target_time.sec]
                /\ \E took \in 0 .. MaxPushSeconds, raised \in BOOLEAN :
                      /\ clock' = PlusSeconds(WakeAt(target_time), took)
                      /\ IF raised
                         THEN times' = <<>> /\ may_pc' = "except"
                         ELSE times' = Tail(times) /\ may_pc' = after
    /\ UNCHANGED planned_days
    /\ UNCHANGED <<genVars, schedVars, syncVars>>

\* run_daily, the foot of the loop: sleep until tomorrow at the opening hour
MayWaitNextDay ==
    /\ may_pc = "wait"
    /\ clock.day + 1 <= MaxDays
    /\ clock' = WakeAt(AtHour(clock.day + 1, MayStartHour))
    /\ may_pc' = "loop"
    /\ UNCHANGED <<times, last_push, planned_days>>
    /\ UNCHANGED <<genVars, schedVars, syncVars>>

\* run_daily, `except Exception`: time.sleep(60), then the loop starts again
MayExcept ==
    /\ may_pc = "except"
    /\ PlusSeconds(clock, SecondsPerMinute).day <= MaxDays
    /\ clock' = WakeAt(PlusSeconds(clock, SecondsPerMinute))
    /\ may_pc' = "loop"
    /\ UNCHANGED <<times, last_push, planned_days>>
    /\ UNCHANGED <<genVars, schedVars, syncVars>>

\* run_daily is entered on any day of the week at any second of the day
MayInit ==
    /\ may_pc = "loop"
    /\ clock \in [day : {0}, sec : 0 .. SecondsPerDay - 1, late : BOOLEAN]
    /\ times = <<>>
    /\ last_push = NoPush
    /\ planned_days = {}
    /\ weekday0 \in 0 .. DaysPerWeek - 1
    /\ weekend_only = FALSE
    /\ now = [day |-> 0, minute |-> 0]
    /\ jobs = <<>>
    /\ scheduled_jobs = <<>>
    /\ initial_job = NoJob
    /\ queue = <<>>
    /\ gen_count = 0
    /\ last_call = [day |-> 0, prev_day |-> -1, eligible |-> TRUE]
    /\ last_run = NoRun
    /\ initial_runs = 0
    /\ in_flight = 0
    /\ interrupted = None
    /\ start_hour = 0
    /\ end_hour = 0
    /\ called = FALSE
    /\ task_count = 0
    /\ time_slots = <<>>
    /\ slot_draws = 0
    /\ loop_gaps = <<>>
    /\ SyncIdle

MayNext ==
    \/ MayLoop
    \/ MayRunOnce
    \/ MayWaitNextDay
    \/ MayExcept

\* May/AutoPushGitHub.py: run_daily
SpecMay == MayInit /\ [][MayNext]_vars

(* ======================= the slot generator ============================ *)
SlotCount == Len(time_slots)

\* avail = window.end - window.start, in seconds
Avail == HoursDelta(end_hour) - HoursDelta(start_hour)

\* _min_interval in seconds, as __init__ sets it
Spacing == MinIntervalMinutes * SecondsPerMinute

\* C1: any two consecutive slots returned by _generate_time_slots differ by at
\* least the minimum spacing, for every window, drawn count and draw.
C1_ConsecutiveSlotsSpaced ==
    called => \A i \in 1 .. SlotCount - 1 :
                 time_slots[i + 1] - time_slots[i] >= Spacing

\* three slots were returned and two of them are exactly the spacing apart
C1_Witness ==
    /\ called
    /\ SlotCount = MaxCount
    /\ time_slots[2] - time_slots[1] = Spacing
    /\ time_slots[3] - time_slots[2] > Spacing

\* C2: for a window with start <= end every returned slot lies in the closed
\* interval [window.start, window.end].
C2_SlotsInsideWindow ==
    (called /\ start_hour <= end_hour) =>
        \A i \in 1 .. SlotCount :
            /\ HoursDelta(start_hour) <= time_slots[i]
            /\ time_slots[i] <= HoursDelta(end_hour)

\* three slots were returned, the first at the window's start and the last at its end
C2_Witness ==
    /\ called
    /\ start_hour < end_hour
    /\ SlotCount = MaxCount
    /\ time_slots[1] = HoursDelta(start_hour)
    /\ time_slots[SlotCount] = HoursDelta(end_hour)

\* C3 as stated: the returned sequence has at most n slots, and at least one
\* whenever avail >= 0.
C3_Original ==
    called => /\ SlotCount <= task_count
              /\ (Avail >= 0 => SlotCount >= 1)

\* C3 as amended: the returned sequence has at most n slots, and at least one
\* whenever avail >= (n-1) * minSpacing.
C3_LengthBounds ==
    called => /\ SlotCount <= task_count
              /\ (Avail >= (task_count - 1) * Spacing => SlotCount >= 1)

\* the loop stopped early: fewer slots than drawn, on a window wide enough for n
C3_Witness ==
    /\ called
    /\ task_count = MaxCount
    /\ Avail >= (task_count - 1) * Spacing
    /\ SlotCount >= 1
    /\ SlotCount < task_count

\* C4: when avail < (n-1) * minSpacing the call returns the empty sequence and
\* has drawn no slot.
C4_TooNarrowReturnsEmpty ==
    (called /\ Avail < (task_count - 1) * Spacing) =>
        /\ time_slots = <<>>
        /\ slot_draws = 0

\* a window that is not negative and too narrow for the drawn count
C4_Witness ==
    /\ called
    /\ Avail >= 0
    /\ Avail < (task_count - 1) * Spacing
    /\ time_slots = <<>>

\* C5: the returned sequence is in increasing time order, strictly when
\* minSpacing > 0.
C5_StrictlyIncreasing ==
    (called /\ Spacing > 0) =>
        \A i \in 1 .. SlotCount : \A j \in 1 .. SlotCount :
            i < j => time_slots[i] < time_slots[j]

\* three slots in increasing order, none at the window's bounds
C5_Witness ==
    /\ called
    /\ SlotCount = MaxCount
    /\ HoursDelta(start_hour) < time_slots[1]
    /\ time_slots[1] < time_slots[2]
    /\ time_slots[2] < time_slots[3]
    /\ time_slots[3] < HoursDelta(end_hour)

\* C6 as stated: on a zero-width window the call returns the empty sequence for
\* every drawn count, n = 1 included.
C6_Original ==
    (called /\ start_hour = end_hour) => time_slots = <<>>

\* C6 as amended: on a zero-width window the call returns the empty sequence for
\* every drawn count n >= 2, and the single slot window.start for n = 1.
C6_ZeroWidthWindow ==
    (called /\ start_hour = end_hour) =>
        /\ task_count >= 2 => time_slots = <<>>
        /\ task_count = 1 => time_slots = <<HoursDelta(start_hour)>>

\* a zero-width window on which one slot was drawn and returned
C6_Witness ==
    /\ called
    /\ start_hour = end_hour
    /\ task_count = 1
    /\ SlotCount = 1

(* ========================== the scheduler ============================== *)
Armed(kind) == { i \in DOMAIN jobs : jobs[i].kind = kind }

\* the slot and rollover jobs in the list are those the latest call made
OnlyLatestGeneration ==
    \A i \in DOMAIN jobs :
        jobs[i].kind # "initial" => jobs[i].id[1] = gen_count

\* C7: after two _schedule_daily_jobs calls in succession on the same date the
\* armed timers are exactly those of the second call: its slot timers and one
\* rollover timer, none left from the first call.
C7_RegenerationIdempotent ==
    (last_call.prev_day = last_call.day) =>
        /\ OnlyLatestGeneration
        /\ Cardinality(Armed("rollover")) <= 1

\* C8: in every reachable state at most one rollover timer is armed.
C8_AtMostOneRolloverTimer == Cardinality(Armed("rollover")) <= 1

\* the armed slot timers are exactly the jobs held in _scheduled_jobs, all made
\* by the latest _schedule_daily_jobs call
SlotTimersAreLatest ==
    /\ { jobs[i].id : i \in Armed("slot") } = Range(scheduled_jobs)
    /\ \A i \in Armed("slot") : jobs[i].id[1] = gen_count

\* C9: after every completed _schedule_daily_jobs call the armed slot timers are
\* exactly the jobs in _scheduled_jobs, all made by the latest call, so that no
\* slot timer of an earlier generation fires after the call that cancelled it.
C9_NoStaleSlotTimer ==
    /\ SlotTimersAreLatest
    /\ last_run.kind = "slot" => last_run.armed

\* C10: in the weekend-only scheduler, after _schedule_daily_jobs ran on a day
\* from Monday to Friday no slot timer is armed and the midnight rollover timer
\* is armed, also when the call was the constructor's.
C10_IneligibleDayArmsRollover ==
    (weekend_only /\ ~last_call.eligible) =>
        /\ Armed("slot") = {}
        /\ Armed("rollover") # {}

\* the clock has passed a midnight after the start and run_pending has run
\* every job that was due
PendingPassDone == now.day >= 1 /\ queue = <<>> /\ Due = <<>>

\* C11: at every local midnight after the process started, whatever the start
\* day, the day's eligibility and the result of the slot generator,
\* _schedule_daily_jobs has run once run_pending has completed its pass.
C11_RegeneratesEveryMidnight == PendingPassDone => last_call.day = now.day

\* C12: the bootstrap timer fires at most once: after it has fired, whether
\* auto_push returned or raised, the timer is cancelled, _initial_job is None
\* and no later action arms it again.
C12_BootstrapFiresOnce ==
    /\ initial_runs <= 1
    /\ initial_runs = 1 => /\ initial_job = NoJob
                           /\ Armed("initial") = {}
                           /\ \A i \in DOMAIN queue : queue[i].kind # "initial"

\* the bootstrap timer fired on day 0 with auto_push raising, and a day later
\* it has not fired again
C12_Witness ==
    /\ initial_runs = 1
    /\ now.day >= 1
    /\ last_run.kind = "slot"
    /\ last_run.day >= 1

(* ====================== the synchronisation run ======================== *)
\* the positions in the log of the run at which command c was issued
Issued(c) == { i \in DOMAIN commands : commands[i].cmd = c }

\* the push commands of the run, plain and upstream-setting
Pushes == Issued("push") \cup Issued("push_u")

\* the backend accepted the command: it exited 0
Accepted(r) == r \in {"out", "empty"}

Finished == sync_pc = "done"

\* the path is missing or no working copy, or the ssh probe did not answer "Hi"
PreflightFailed ==
    \/ sync_pc # "validate" /\ repo_path # "ok"
    \/ \E i \in Issued("ssh") : commands[i].res # "hi"

\* C13: when Preflight fails the run ends with a failure outcome, issues no git
\* command after the probe and mutates nothing: no marker file, no reset, add,
\* commit or push.
C13_PreflightFailureIsTerminal ==
    PreflightFailed =>
        /\ Finished
        /\ ~flow_result.success
        /\ flow_result.message \in {"ValueError", "SshFailed"}
        /\ marker_file = None
        /\ \A i \in DOMAIN commands : commands[i].cmd = "ssh"

\* the ssh probe raised: the run is over and the probe is its only command
C13_Witness ==
    /\ Finished
    /\ repo_path = "ok"
    /\ commands = <<Cmd("ssh", "exception")>>
    /\ flow_result = [success |-> FALSE, message |-> "SshFailed"]

\* C14: a run on a repository with nothing to commit after Converge, Mutate and
\* Reconcile ends with the NoChanges outcome, neither success nor failure, and
\* attempts no commit and no push.
C14_NoChangesOutcome ==
    (Finished /\ ~has_changes /\ Issued("add") # {}) =>
        /\ flow_result.message = "NoChanges"
        /\ Issued("commit") = {}
        /\ Pushes = {}

\* the plain push was rejected, git status reported no upstream and the
\* upstream-setting push was accepted
UpstreamRetryAccepted ==
    \E i \in Issued("push") :
        /\ commands[i].res = "fail"
        /\ i + 2 <= Len(commands)
        /\ commands[i + 1] = Cmd("status", "no_upstream")
        /\ commands[i + 2].cmd = "push_u"
        /\ Accepted(commands[i + 2].res)

\* C15: when the first plain push is rejected for want of an upstream and the
\* upstream-setting retry is accepted, the outcome is Success and exactly two
\* push commands were issued: no pull and no third push.
C15_UpstreamRetrySucceeds ==
    (Finished /\ UpstreamRetryAccepted) =>
        /\ flow_result.success
        /\ Cardinality(Pushes) = 2
        /\ Issued("pull") = {}

\* the run ended with push rejected, no upstream reported, push -u accepted
C15_Witness ==
    /\ Finished
    /\ flow_result.success
    /\ Len(commands) >= 3
    /\ SubSeq(commands, Len(commands) - 2, Len(commands)) =
          <<Cmd("push", "fail"), Cmd("status", "no_upstream"),
            Cmd("push_u", "empty")>>

\* C16: the outcome is Success only if some push of the run was accepted.
C16_SuccessNeedsAcceptedPush ==
    (Finished /\ flow_result.success) =>
        \E i \in Pushes : Accepted(commands[i].res)

\* the plain push at position i failed and was followed by one pull and then
\* exactly one plain push
PullThenOnePush(i) ==
    /\ Cardinality(Issued("pull")) = 1
    /\ \A k \in Issued("pull") :
          /\ k > i
          /\ Cardinality({ j \in Issued("push") : j > k }) = 1
          /\ { j \in Pushes : j > i /\ j < k } \subseteq Issued("push_u")

\* C17: if the plain push fails and either the branch has no upstream and the
\* upstream-setting retry fails too, or the branch has an upstream, the run
\* pulls the remote main branch once and retries the plain push exactly once.
C17_PullThenRetry ==
    Finished =>
        \A i \in Issued("push") :
            (/\ ~Accepted(commands[i].res)
             /\ i < Len(commands)
             /\ commands[i + 1].cmd = "status"
             /\ \/ commands[i + 1].res # "no_upstream"
                \/ \E j \in Issued("push_u") : ~Accepted(commands[j].res))
            => PullThenOnePush(i)

\* C18: a failure of the Converge command does not end the run: the run goes
\* on to the reconcile, stage and commit steps.
C18_ConvergeFailureNonFatal ==
    (Finished /\ \E i \in Issued("reset_pull") : ~Accepted(commands[i].res)) =>
        /\ flow_result.message # "PullFailed"
        /\ Issued("ls_files") # {}
        /\ Issued("add") # {}
        /\ Issued("commit") # {}

\* C19: if creating the marker file fails the run ends with the
\* WorkingTreeWrite failure and issues no add, commit or push afterwards.
C19_MarkerFailureIsTerminal ==
    marker_file = "raised" =>
        /\ Finished
        /\ flow_result = [success |-> FALSE, message |-> "FileCreateFailed"]
        /\ Issued("add") = {}
        /\ Issued("commit") = {}
        /\ Pushes = {}

\* the probe answered, creating the file raised, and the run is over
C19_Witness ==
    /\ Finished
    /\ marker_file = "raised"
    /\ commands = <<Cmd("ssh", "hi")>>
    /\ flow_result.message = "FileCreateFailed"

\* C20: if the current branch cannot be resolved the run ends with the
\* BranchResolution failure and issues no push command of any kind.
C20_UnresolvedBranchNoPush ==
    (\E i \in Issued("rev_parse") : commands[i].res # "out") =>
        /\ Finished
        /\ flow_result = [success |-> FALSE, message |-> "BranchFailed"]
        /\ Pushes = {}

\* the commit was made, rev-parse failed, and the run is over
C20_Witness ==
    /\ Finished
    /\ Issued("commit") # {}
    /\ commands[Len(commands)] = Cmd("rev_parse", "fail")
    /\ flow_result.message = "BranchFailed"

\* C21: when a git command of the run exceeds the 120-second ceiling the run
\* ends there with a failure: the timed-out command is the last command of the
\* run, so no later git command is issued and the step is not retried.
C21_TimeoutEndsRun ==
    \A i \in DOMAIN commands :
        commands[i].res = "timeout" =>
            /\ i = Len(commands)
            /\ Finished
            /\ ~flow_result.success

\* C22: a run ends with a failure before the push stage only for a Preflight,
\* WorkingTreeWrite or BranchResolution failure; a failed Converge, reconcile,
\* stage or commit command does not end the run.
C22_TerminalKinds ==
    (Finished /\ ~flow_result.success) =>
        flow_result.message \in
            {"ValueError", "SshFailed", "FileCreateFailed", "BranchFailed"}

\* C28: within one run the Converge command is issued before the marker file is
\* created, and the marker file is created before staging, commit and push.
C28_StepOrder ==
    /\ marker_file = "created" => Issued("reset_pull") # {}
    /\ (Issued("add") \cup Issued("commit") \cup Pushes) # {} =>
          marker_file = "created"

(* ================== the slot generator, its loop ======================= *)
\* C29: in _generate_time_slots min_next <= max_next holds at every loop
\* iteration, for every window, count and sequence of draws; the loop stops
\* early exactly when min_next = max_next, and then fewer than n slots are
\* returned.
C29_LowerBoundNeverAboveUpper ==
    called =>
        /\ \A i \in DOMAIN loop_gaps : loop_gaps[i] >= 0
        /\ (\E i \in DOMAIN loop_gaps : loop_gaps[i] = 0) <=>
              (time_slots # <<>> /\ SlotCount < task_count)
        /\ \A i \in DOMAIN loop_gaps : loop_gaps[i] = 0 => i = SlotCount

\* three slots were asked for, the second was drawn at its upper bound and the
\* loop stopped at its second iteration with min_next = max_next
C29_Witness ==
    /\ called
    /\ task_count = MaxCount
    /\ SlotCount = 2
    /\ Len(loop_gaps) = 2
    /\ loop_gaps[1] > 0
    /\ loop_gaps[2] = 0

(* ===================== the scheduler, arming =========================== *)
\* C30: arming cuts each slot to whole minutes; the armed minutes of two
\* consecutive slots of one generation still differ by at least the minimum
\* spacing in minutes, so no two of them are armed for the same minute, and
\* every armed minute lies inside the window of whole hours.
C30_ArmedMinutesSpaced ==
    /\ \A i \in Armed("slot") : \A j \in Armed("slot") :
          (jobs[i].id[1] = jobs[j].id[1] /\ jobs[j].id[3] = jobs[i].id[3] + 1) =>
              jobs[j].at - jobs[i].at >= MinIntervalMinutes
    /\ \A i \in Armed("slot") :
          /\ start_hour * MinutesPerHour <= jobs[i].at
          /\ jobs[i].at <= end_hour * MinutesPerHour

\* three slot timers made by the midnight regeneration are armed, the first two
\* exactly the minimum spacing apart and the last at the window's end
C30_Witness ==
    \E i \in Armed("slot") : \E j \in Armed("slot") : \E k \in Armed("slot") :
        /\ jobs[i].id[1] = 2
        /\ jobs[i].id[1] = jobs[j].id[1]
        /\ jobs[j].id[1] = jobs[k].id[1]
        /\ jobs[i].id[3] = 1
        /\ jobs[j].id[3] = 2
        /\ jobs[k].id[3] = 3
        /\ jobs[j].at - jobs[i].at = MinIntervalMinutes
        /\ jobs[k].at = end_hour * MinutesPerHour

(* ================= the scheduler, its sync runs ======================== *)
\* the jobs of the pending pass whose callback calls auto_push
SyncJobs == { i \in DOMAIN queue : queue[i].kind \in {"slot", "initial"} }

\* C23: at most one sync run is in progress at any time, also when several
\* slot timers or the bootstrap timer are due at the same instant: a run starts
\* only after the previous one has returned.
C23_OneRunAtATime == in_flight <= 1

\* a sync run is in progress while a second timer, due at the same minute,
\* waits in the same pending pass
C23_Witness ==
    /\ in_flight = 1
    /\ \E i \in SyncJobs : \E j \in SyncJobs :
          /\ i = 1
          /\ j > i
          /\ queue[i].at = queue[j].at

C25_SlotFiresOnItsDayOnly ==
    last_run.kind = "slot" => last_run.day = last_run.made

\* C26: on a process-level interrupt a sync run that is in flight completes
\* its current command before the process exits: the interrupt never finds the
\* run in the middle of a command and tears it down there.  (The armed timers
\* are not cancelled by any statement; they end with the process.)
C26_InterruptCompletesStep == interrupted # "mid_command"

(* ===================== linux_env/autoPush.py =========================== *)
\* C27: in linux_env/autoPush.py, whenever the add, commit or push command of
\* GitAutoPusher.push fails or times out, push returns a failure outcome and
\* main sends the failure notification, never the success one.
C27_NoErrorDropped ==
    (Finished /\ \E i \in Issued("add") \cup Issued("commit") \cup Issued("push") :
                    ~Accepted(commands[i].res)) =>
        /\ ~flow_result.success
        /\ notice = "failure"

(* ================ the synchronisation run, exit status ================= *)
\* C31: in June's GitAutoPusher a command that exits with status 0 is never
\* treated as a failure, also when it wrote nothing to standard output: the run
\* does not end with the failure of a step whose command exited 0, and a first
\* push that exited 0 is followed by no second push and no pull.
C31_ExitZeroIsSuccess ==
    /\ \A i \in Issued("push") :
          (i = 1 \/ commands[i - 1].cmd = "rev_parse") /\ Accepted(commands[i].res)
              => i = Len(commands)
    /\ flow_result.message = "PullFailed" =>
          \A i \in Issued("reset_pull") : ~Accepted(commands[i].res)
    /\ flow_result.message = "CommitFailed" =>
          \A i \in Issued("commit") : ~Accepted(commands[i].res)
    /\ flow_result.message = "BranchFailed" =>
          \A i \in Issued("rev_parse") : ~Accepted(commands[i].res)

(* ================ the scheduler, a failed sync run ===================== *)
\* the ids of the armed timers whose callback is of the given kind
ArmedIds(js, kind) == { js[i].id : i \in { k \in DOMAIN js : js[k].kind = kind } }

\* C32: a slot-timer callback, whether its sync run returned or raised, leaves
\* the scheduler state as it found it: the armed slot timers, the rollover
\* timers and _scheduled_jobs are the same before and after _execute_work, and
\* the main loop goes on with the next timer of the pass.
C32_FailedRunKeepsSchedule ==
    [][(in_flight' < in_flight /\ interrupted' = None /\ Head(queue).kind = "slot")
        => /\ ArmedIds(jobs', "slot") = ArmedIds(jobs, "slot")
           /\ ArmedIds(jobs', "rollover") = ArmedIds(jobs, "rollover")
           /\ ArmedIds(jobs', "initial") = ArmedIds(jobs, "initial")
           /\ Len(jobs') = Len(jobs)
           /\ scheduled_jobs' = scheduled_jobs
           /\ queue' = Tail(queue)]_vars

\* a slot timer's sync run raised; the timer, a rollover timer and
\* _scheduled_jobs are in place and another timer of the pass is next
C32_Witness ==
    /\ last_run.kind = "slot"
    /\ last_run.raised
    /\ IsArmed(last_run.id)
    /\ last_run.id \in Range(scheduled_jobs)
    /\ Armed("rollover") # {}
    /\ queue # <<>>

(* ================ the weekend-only scheduler, slot runs ================ *)
\* C33: in the weekend-only scheduler a sync run triggered by a slot timer
\* never happens on a day from Monday to Friday, whatever the start day and
\* start time of the process.
C33_SlotRunsOnWeekendOnly ==
    (weekend_only /\ last_run.kind = "slot") => IsWeekend(last_run.day)

(* ================== May/AutoPushGitHub.py, run_daily ==================== *)
\* C34: in run_daily, for every start day and start time, every invocation of
\* auto_push happens on a Saturday or a Sunday, and for each weekend day the
\* process has lived through (the days after the day it started on) at least
\* one invocation was scheduled.
C34_RunsOnEveryWeekendDay ==
    /\ last_push # NoPush => Weekday(last_push.day) \in {Saturday, Sunday}
    /\ \A d \in 1 .. clock.day - 1 :
          Weekday(d) \in {Saturday, Sunday} => d \in planned_days

(* ============= the synchronisation run, its command count ============== *)
\* the commands of a run other than the pushes
OtherCommands ==
    {"ssh", "reset_pull", "ls_files", "rm_cached", "add", "commit", "rev_parse",
     "status", "pull"}

\* the most commands a run issues when no file is listed as deleted: ssh,
\* converge, ls-files, add, commit, rev-parse, push, status, pull, push
MaxFixedCommands == Cardinality(OtherCommands \ {"rm_cached"}) + 2

====
